---- MODULE Spec2Model ----
(***************************************************************************)
(* Model of app.py, the NYCPS script builder: weight_score, match_issue,   *)
(* render_script and the "Build Script" handler of main.                   *)
(*                                                                         *)
(* A Python str is a sequence of atoms (TLA+ strings): a word, a blank,    *)
(* the delimiter ";", a line break.  The empty str is << >>.  A row        *)
(* (pd.Series) is a function from the column names the table has to the   *)
(* cell texts; read_csv_file's fillna("") makes every missing cell << >>.  *)
(* Cells are str, as the data model of the knowledge base says.            *)
(***************************************************************************)
EXTENDS Integers, Sequences, FiniteSets

VARIABLES
    kb_file,          \* st.file_uploader: << >> is None, <<table>> an uploaded kb.csv
    query,            \* st.text_area
    agent_name,       \* sidebar st.text_input
    ticket_number,    \* sidebar st.text_input
    token_set_ratio,  \* fuzz.token_set_ratio(query, .): the black box, a text -> 0..100
    message,          \* the st.error / st.warning / st.success of the last run
    matches,          \* main's local `matches`
    script,           \* the text given to st.code
    alternatives,     \* the expanders of matches[1:]
    meta,             \* the st.json of the metadata expander
    calls,            \* how often the last run called each function of app.py
    stopped,          \* the last run ended in st.stop()
    row,              \* argument of a direct call of weight_score / render_script
    score,            \* result of a direct call of weight_score
    pc                \* "idle", "built", or "ready"/"done" of a direct call

vars == <<kb_file, query, agent_name, ticket_number, token_set_ratio, message,
          matches, script, alternatives, meta, calls, stopped, row, score, pc>>

----------------------------------------------------------------------------
(* Bounds of the model *)

MaxRows == 7
MaxItems == 3

----------------------------------------------------------------------------
(* Configuration, app.py:7-8 *)

MIN_SCORE == 70
ALT_COUNT == 5

----------------------------------------------------------------------------
(* Python str and dict primitives, on sequences of atoms *)

Whitespace == {" ", "\n", "\t"}

RECURSIVE lstrip(_)
lstrip(s) ==
    IF s # << >> /\ Head(s) \in Whitespace THEN lstrip(Tail(s)) ELSE s

RECURSIVE rstrip(_)
rstrip(s) ==
    IF s # << >> /\ s[Len(s)] \in Whitespace
    THEN rstrip(SubSeq(s, 1, Len(s) - 1))
    ELSE s

\* a strip that strips nothing
strip_nothing(s) == s

strip(s) == rstrip(lstrip(s))

\* s.replace(old, new, count): leftmost, non-overlapping; count < 0 is "all"
RECURSIVE replace(_, _, _, _)
replace(s, old, new, count) ==
    IF count = 0 \/ Len(s) < Len(old) THEN s
    ELSE IF SubSeq(s, 1, Len(old)) = old
         THEN new \o replace(SubSeq(s, Len(old) + 1, Len(s)), old, new, count - 1)
         ELSE <<Head(s)>> \o replace(Tail(s), old, new, count)

\* row.get(key, default)
get(r, key, default) == IF key \in DOMAIN r THEN r[key] ELSE default

\* an `or` that keeps the empty str
or_keep(x, default) == x

\* x or default, on str
or(x, default) == IF x # << >> THEN x ELSE default

----------------------------------------------------------------------------
(* weight_score, app.py:69-94 *)

\* the fields with every weight 1
fields_unweighted == <<
    [f |-> "title",         w |-> 1],
    [f |-> "keywords",      w |-> 1],
    [f |-> "kb_id",         w |-> 1],
    [f |-> "tech_app",      w |-> 1],
    [f |-> "category",      w |-> 1],
    [f |-> "action",        w |-> 1],
    [f |-> "catalog",       w |-> 1],
    [f |-> "service_group", w |-> 1],
    [f |-> "probing",       w |-> 1],
    [f |-> "steps",         w |-> 1] >>

\* the dict `fields`, in insertion order
fields == <<
    [f |-> "title",         w |-> 3],
    [f |-> "keywords",      w |-> 3],
    [f |-> "kb_id",         w |-> 2],
    [f |-> "tech_app",      w |-> 2],
    [f |-> "category",      w |-> 2],
    [f |-> "action",        w |-> 2],
    [f |-> "catalog",       w |-> 1],
    [f |-> "service_group", w |-> 1],
    [f |-> "probing",       w |-> 1],
    [f |-> "steps",         w |-> 1] >>

\* a normalisation that rounds to the nearest integer
normalize_round(total, max_total) ==
    (200 * total + max_total) \div (2 * max_total)

\* int((total / max_total) * 100) in IEEE-754 doubles.  The quotient is the
\* double nearest to total/max_total; times 100 it lands just below the
\* integer exactly when the quotient is 0.29, 0.57 or 0.58 (0.29 * 100 =
\* 28.999999999999996), and int() truncates.  Elsewhere the result is the
\* exact floor.
normalize(total, max_total) ==
    LET exact == (100 * total) \div max_total
    IN  IF 100 * total \in {29 * max_total, 57 * max_total, 58 * max_total}
        THEN exact - 1
        ELSE exact

\* a loop that leaves an empty field out of max_total
RECURSIVE score_loop_skip_empty(_, _, _, _)
score_loop_skip_empty(i, r, ratio, acc) ==
    IF i > Len(fields) THEN acc
    ELSE LET f == fields[i].f
             w == fields[i].w
             text == get(r, f, << >>)
         IN  IF text # << >>
             THEN score_loop_skip_empty(i + 1, r, ratio,
                             [total |-> acc.total + ratio[text] * w,
                              max_total |-> acc.max_total + 100 * w])
             ELSE score_loop_skip_empty(i + 1, r, ratio, acc)

\* the for loop: acc is (total, max_total) after the first i - 1 fields
RECURSIVE score_loop(_, _, _, _)
score_loop(i, r, ratio, acc) ==
    IF i > Len(fields) THEN acc
    ELSE LET f == fields[i].f
             w == fields[i].w
             text == get(r, f, << >>)
         IN  IF text # << >>
             THEN score_loop(i + 1, r, ratio,
                             [total |-> acc.total + ratio[text] * w,
                              max_total |-> acc.max_total + 100 * w])
             ELSE score_loop(i + 1, r, ratio,
                             [total |-> acc.total,
                              max_total |-> acc.max_total + 100 * w])

weight_score(r, ratio) ==
    LET acc == score_loop(1, r, ratio, [total |-> 0, max_total |-> 0])
    IN  IF acc.max_total # 0 THEN normalize(acc.total, acc.max_total) ELSE 0

----------------------------------------------------------------------------
(* match_issue, app.py:96-103 *)

\* a loop that keeps every row, whatever its score
RECURSIVE scored_loop_unfiltered(_, _, _, _)
scored_loop_unfiltered(i, kb_df, ratio, scored) ==
    IF i > Len(kb_df.rows) THEN scored
    ELSE scored_loop_unfiltered(i + 1, kb_df, ratio,
             Append(scored, [idx |-> i - 1,
                             score |-> weight_score(kb_df.rows[i], ratio)]))

\* the for loop over kb_df.iterrows(): idx is the 0-based row label
RECURSIVE scored_loop(_, _, _, _)
scored_loop(i, kb_df, ratio, scored) ==
    IF i > Len(kb_df.rows) THEN scored
    ELSE LET s == weight_score(kb_df.rows[i], ratio)
         IN  IF s >= MIN_SCORE
             THEN scored_loop(i + 1, kb_df, ratio,
                              Append(scored, [idx |-> i - 1, score |-> s]))
             ELSE scored_loop(i + 1, kb_df, ratio, scored)

\* list.sort(key=lambda x: x[1], reverse=True): stable, descending by score.
\* insert puts x after every element whose score is >= its own.
\* an insertion that goes before the elements of equal score: not stable
RECURSIVE insert_before_ties(_, _)
insert_before_ties(sorted, x) ==
    IF sorted = << >> THEN <<x>>
    ELSE IF Head(sorted).score > x.score
         THEN <<Head(sorted)>> \o insert_before_ties(Tail(sorted), x)
         ELSE <<x>> \o sorted

RECURSIVE insert(_, _)
insert(sorted, x) ==
    IF sorted = << >> THEN <<x>>
    ELSE IF Head(sorted).score >= x.score
         THEN <<Head(sorted)>> \o insert(Tail(sorted), x)
         ELSE <<x>> \o sorted

RECURSIVE sort(_)
sort(scored) ==
    IF scored = << >> THEN << >>
    ELSE insert(sort(SubSeq(scored, 1, Len(scored) - 1)), scored[Len(scored)])

\* a slice that keeps everything
slice_all(scored) == scored

\* scored[:ALT_COUNT]
slice(scored) ==
    SubSeq(scored, 1, IF Len(scored) < ALT_COUNT THEN Len(scored) ELSE ALT_COUNT)

match_issue(kb_df, ratio) ==
    LET scored == sort(scored_loop(1, kb_df, ratio, << >>))
    IN  IF scored # << >> THEN slice(scored) ELSE << >>

----------------------------------------------------------------------------
(* SCRIPT_TEMPLATE, app.py:10-58.  One atom per literal run of text, per     *)
(* replacement field and per line break.  The em dash and the non-breaking   *)
(* hyphen of two headers are written "--" and "-", the bullet U+2022 of      *)
(* render_script is written "(U+2022) ".                                     *)

SCRIPT_TEMPLATE == strip(<<
    "\n",
    "[GREETING]", "\n",
    "Thank you for calling NYCPS Service Desk. My name is ", "{agent_name}",
    ". Are you calling for a new issue or an existing ticket?", "\n",
    "\n",
    "[VERIFICATION -- DOE 5-Point]", "\n",
    "1) Full Name  2) DOE Email  3) Title  4) School DBN / Central Location  5) Callback #", "\n",
    "\n",
    "[CLASSIFICATION -- 4 Levels]", "\n",
    "Catalog: ", "{catalog}", "\n",
    "Service Group: ", "{service_group}", "\n",
    "Category: ", "{category}", "\n",
    "Action: ", "{action}", "\n",
    "\n",
    "[TECHNOLOGY]", "\n",
    "Technology/Application: ", "{tech_app}", "\n",
    "OS: ", "{os}", "\n",
    "\n",
    "[WHAT TO ASK (Probing)]", "\n",
    "{probing_block}", "\n",
    "\n",
    "[WHAT TO SAY / DO (Resolution Steps)]", "\n",
    "{steps_block}", "\n",
    "\n",
    "[URLS / FORMS]", "\n",
    "{urls_block}", "\n",
    "\n",
    "[ESCALATION / ROUTING]", "\n",
    "- Route to: ", "{routing_group}", "\n",
    "- Routing Notes: ", "{routing_notes}", "\n",
    "\n",
    "[REQUIRED DATA TO COLLECT]", "\n",
    "{required_fields_block}", "\n",
    "\n",
    "[CAUSE / RESOLUTION CODES]", "\n",
    "- Cause Code: ", "{cause_code}", "\n",
    "- Resolution Code: ", "{resolution_code}", "\n",
    "\n",
    "[HOURS / SCHEDULE]", "\n",
    "{hours}", "\n",
    "\n",
    "[CONTACTS]", "\n",
    "{contacts}", "\n",
    "\n",
    "[SOURCES]", "\n",
    "{kb_sources}", "\n",
    "\n",
    "[CLOSING]", "\n",
    "For your reference, the ticket number is ", "{ticket_number}",
    ". Thank you for calling and have a great day.",
    "\n" >>)

\* the replacement fields str.format finds in SCRIPT_TEMPLATE
ReplacementFields ==
    {"{agent_name}", "{catalog}", "{service_group}", "{category}", "{action}",
     "{tech_app}", "{os}", "{probing_block}", "{steps_block}", "{urls_block}",
     "{routing_group}", "{routing_notes}", "{required_fields_block}",
     "{cause_code}", "{resolution_code}", "{hours}", "{contacts}",
     "{kb_sources}", "{ticket_number}"}

KeyError == <<"KeyError">>

\* template.format(**kwargs): every replacement field becomes the keyword
\* argument it names; a field with no argument raises KeyError
RECURSIVE substitute(_, _)
substitute(template, kwargs) ==
    IF template = << >> THEN << >>
    ELSE (IF Head(template) \in ReplacementFields
          THEN kwargs[Head(template)]
          ELSE <<Head(template)>>) \o substitute(Tail(template), kwargs)

format(template, kwargs) ==
    IF \E i \in 1..Len(template) :
           template[i] \in ReplacementFields /\ template[i] \notin DOMAIN kwargs
    THEN KeyError
    ELSE substitute(template, kwargs)

----------------------------------------------------------------------------
(* render_script, app.py:105-136 *)

\* "- " + text.replace(";", "\n- ") if text else "-"      (lines 108, 112, 114)
bullet_block(text) ==
    IF text # << >>
    THEN <<"- ">> \o replace(text, <<";">>, <<"\n", "- ">>, -1)
    ELSE <<"-">>

\* "1) " + steps.replace(";", "\n2) ", 1).replace("\n2) ", "\n2) ")
\*                .replace(";", "\n(U+2022) ") if steps else "-"    (line 110)
steps_block(steps) ==
    IF steps # << >>
    THEN <<"1) ">> \o
         replace(replace(replace(steps, <<";">>, <<"\n", "2) ">>, 1),
                         <<"\n", "2) ">>, <<"\n", "2) ">>, -1),
                 <<";">>, <<"\n", "(U+2022) ">>, -1)
    ELSE <<"-">>

\* the keyword arguments of SCRIPT_TEMPLATE.format, lines 107-135
script_kwargs(r, agent, ticket) ==
    LET probing == strip(get(r, "probing", << >>))
        steps == strip(get(r, "steps", << >>))
        urls == strip(get(r, "urls", << >>))
        required_fields == strip(get(r, "required_fields", << >>))
        dash(col) == or(get(r, col, <<"-">>), <<"-">>)
    IN  [k \in ReplacementFields |->
            CASE k = "{agent_name}" -> or(agent, <<"[Your Name]">>)
              [] k = "{catalog}" -> dash("catalog")
              [] k = "{service_group}" -> dash("service_group")
              [] k = "{category}" -> dash("category")
              [] k = "{action}" -> dash("action")
              [] k = "{tech_app}" -> dash("tech_app")
              [] k = "{os}" -> or(get(r, "os", <<"Any">>), <<"Any">>)
              [] k = "{probing_block}" -> bullet_block(probing)
              [] k = "{steps_block}" -> steps_block(steps)
              [] k = "{urls_block}" -> bullet_block(urls)
              [] k = "{routing_group}" -> dash("routing_group")
              [] k = "{routing_notes}" -> dash("routing_notes")
              [] k = "{required_fields_block}" -> bullet_block(required_fields)
              [] k = "{cause_code}" -> dash("cause_code")
              [] k = "{resolution_code}" -> dash("resolution_code")
              [] k = "{hours}" -> dash("hours")
              [] k = "{contacts}" -> dash("contacts")
              [] k = "{kb_sources}" -> dash("kb_sources")
              [] k = "{ticket_number}" -> or(ticket, <<"[Ticket #]">>)]

\* a render_script that indexes the row, row[col], where the code calls row.get
render_script_indexing(r, agent, ticket) ==
    IF \E col \in {"catalog", "service_group", "category", "action", "tech_app",
                   "os", "probing", "steps", "urls", "routing_group",
                   "routing_notes", "required_fields", "cause_code",
                   "resolution_code", "hours", "contacts", "kb_sources"} :
           col \notin DOMAIN r
    THEN KeyError
    ELSE format(SCRIPT_TEMPLATE, script_kwargs(r, agent, ticket))

render_script(r, agent, ticket) ==
    format(SCRIPT_TEMPLATE, script_kwargs(r, agent, ticket))

----------------------------------------------------------------------------
(* read_csv_file, app.py:65-67.  An uploaded file is the table pd.read_csv   *)
(* parses from it: its header (columns) and its rows.  A missing cell is     *)
(* read as NaN and fillna("") makes it the empty str, which is how the       *)
(* tables below write it.                                                    *)

read_csv_file(file) == [columns |-> file.columns, rows |-> file.rows]

\* kb_df.iloc[idx]
iloc(kb_df, idx) == kb_df.rows[idx + 1]

----------------------------------------------------------------------------
(* The inputs the model draws from *)

\* the v3 schema of kb.csv
Columns ==
    {"kb_id", "title", "keywords", "catalog", "service_group", "category",
     "action", "tech_app", "os", "probing", "steps", "urls", "routing_group",
     "routing_notes", "required_fields", "cause_code", "resolution_code",
     "hours", "contacts", "kb_sources"}

TitleRACF == <<"RACF", " ", "Password", " ", "Reset">>
KwRACF == <<"racf", ";", "password", ";", "pin", ";", "reset">>
QRACF == <<"RACF", " ", "password", " ", "reset,", " ", "PIN", " ", "known">>

Texts == {TitleRACF, KwRACF}
Queries == {<< >>, <<" ", "\n">>, QRACF, TitleRACF}
AgentNames == {<< >>, <<"Ana">>}
TicketNumbers == {<< >>, <<"INC0042">>}

\* values the similarity black box takes in the model
SimVals == {0, 74, 100}

\* the similarity functions a query can have: a text equal to the query
\* scores 100; rapidfuzz scores 0 against a query with no token
NoToken(q) == \A i \in DOMAIN q : q[i] \in {" ", "\n", "\t"}
Ratios(q) ==
    IF NoToken(q) THEN {[t \in Texts |-> 0]}
    ELSE {r \in [Texts -> SimVals] : q \in Texts => r[q] = 100}

\* three knowledge-base rows
RowRACF ==
    [c \in Columns |-> CASE c = "title" -> TitleRACF
                         [] c = "keywords" -> KwRACF
                         [] OTHER -> << >>]
RowFull == [c \in Columns |-> IF c = "title" THEN TitleRACF ELSE KwRACF]
RowNoSteps ==
    [c \in Columns |-> IF c \in {"steps", "os", "hours"} THEN << >> ELSE TitleRACF]

Restrict(r, cols) == [c \in cols |-> r[c]]

SeqsUpTo(S, n) == UNION {[1..k -> S] : k \in 0..n}

\* tables with the whole schema, of up to MaxRows rows
FullTables ==
    {[columns |-> Columns, rows |-> rs] :
        rs \in SeqsUpTo({RowFull, RowNoSteps}, MaxRows)}

\* tables whose header lacks some columns, of up to MaxPartialRows rows
MaxPartialRows == 2
\* one column for each default of row.get: "" (steps), "-" (catalog), "Any" (os)
Droppable == {"catalog", "steps", "os"}
PartialTables ==
    {[columns |-> Columns \ d,
      rows |-> [i \in DOMAIN rs |-> Restrict(rs[i], Columns \ d)]] :
        d \in SUBSET Droppable,
        rs \in SeqsUpTo({RowRACF, RowFull, RowNoSteps}, MaxPartialRows)}

----------------------------------------------------------------------------
(* main, app.py:138-192.  Streamlit runs main again on every interaction;    *)
(* st.button is True only in the run its click starts, so what a "Build      *)
(* Script" run shows is gone after the next interaction.                     *)

NoMessage == [kind |-> "none", text |-> "", kb_id |-> << >>, title |-> << >>, score |-> 0]
NoCalls == [read_csv_file |-> 0, match_issue |-> 0, weight_score |-> 0, render_script |-> 0]

\* a run in which the button is False: lines 139-152 and 192 only
Rerun ==
    /\ message' = NoMessage
    /\ matches' = << >>
    /\ script' = << >>
    /\ alternatives' = << >>
    /\ meta' = << >>
    /\ calls' = NoCalls
    /\ stopped' = FALSE
    /\ pc' = "idle"
    /\ UNCHANGED <<row, score>>

Upload(files) ==
    /\ pc \in {"idle", "built"}
    /\ kb_file = << >>
    /\ \E file \in files : kb_file' = <<file>>
    /\ UNCHANGED <<query, agent_name, ticket_number, token_set_ratio>>
    /\ Rerun

RemoveFile ==
    /\ pc \in {"idle", "built"}
    /\ kb_file # << >>
    /\ kb_file' = << >>
    /\ UNCHANGED <<query, agent_name, ticket_number, token_set_ratio>>
    /\ Rerun

TypeQuery ==
    /\ pc \in {"idle", "built"}
    /\ \E q \in Queries \ {query} :
          /\ query' = q
          /\ token_set_ratio' \in Ratios(q)
    /\ UNCHANGED <<kb_file, agent_name, ticket_number>>
    /\ Rerun

TypeAgentName ==
    /\ pc \in {"idle", "built"}
    /\ \E a \in AgentNames \ {agent_name} : agent_name' = a
    /\ UNCHANGED <<kb_file, query, ticket_number, token_set_ratio>>
    /\ Rerun

TypeTicketNumber ==
    /\ pc \in {"idle", "built"}
    /\ \E t \in TicketNumbers \ {ticket_number} : ticket_number' = t
    /\ UNCHANGED <<kb_file, query, agent_name, token_set_ratio>>
    /\ Rerun

\* the expanders of lines 178-184
alternative_matches(kb_df, m, agent, ticket) ==
    [i \in 1..(Len(m) - 1) |->
        LET alt == iloc(kb_df, m[i + 1].idx)
        IN  [i |-> i,
             kb_id |-> get(alt, "kb_id", <<"?">>),
             title |-> get(alt, "title", <<"?">>),
             score |-> m[i + 1].score,
             caption |-> get(alt, "keywords", << >>),
             text |-> render_script(alt, agent, ticket)]]

\* lines 187-190; the timestamp is the atom "now"
metadata(best_row) ==
    [k \in DOMAIN best_row \cup {"matched_at"} |->
        IF k = "matched_at" THEN <<"now">> ELSE best_row[k]]

\* a click on "Build Script": lines 154-190
BuildScript ==
    /\ pc \in {"idle", "built"}
    /\ pc' = "built"
    /\ UNCHANGED <<kb_file, query, agent_name, ticket_number, token_set_ratio, row, score>>
    /\ IF kb_file = << >>
       THEN /\ message' = [NoMessage EXCEPT !.kind = "error",
                               !.text = "Upload kb.csv first (v3 schema)."]
            /\ stopped' = TRUE
            /\ matches' = << >>
            /\ script' = << >>
            /\ alternatives' = << >>
            /\ meta' = << >>
            /\ calls' = NoCalls
       ELSE IF strip(query) = << >>
       THEN /\ message' = [NoMessage EXCEPT !.kind = "warning",
                               !.text = "Type a short description of the issue from the caller."]
            /\ stopped' = TRUE
            /\ matches' = << >>
            /\ script' = << >>
            /\ alternatives' = << >>
            /\ meta' = << >>
            /\ calls' = NoCalls
       ELSE LET kb_df == read_csv_file(kb_file[1])
                m == match_issue(kb_df, token_set_ratio)
            IN  /\ matches' = m
                /\ IF m = << >>
                   THEN /\ message' = [NoMessage EXCEPT !.kind = "error",
                                           !.text = "No strong match found. Try more specifics (app name, error text, route, KB ID)."]
                        /\ stopped' = TRUE
                        /\ script' = << >>
                        /\ alternatives' = << >>
                        /\ meta' = << >>
                        /\ calls' = [NoCalls EXCEPT !.read_csv_file = 1,
                                         !.match_issue = 1,
                                         !.weight_score = Len(kb_df.rows)]
                   ELSE LET best_idx == m[1].idx
                            best_score == m[1].score
                            best_row == iloc(kb_df, best_idx)
                        IN  /\ message' = [kind |-> "success",
                                           text |-> "Matched",
                                           kb_id |-> get(best_row, "kb_id", <<"?">>),
                                           title |-> get(best_row, "title", <<"?">>),
                                           score |-> best_score]
                            /\ script' = render_script(best_row, agent_name, ticket_number)
                            /\ alternatives' = alternative_matches(kb_df, m, agent_name, ticket_number)
                            /\ meta' = <<metadata(best_row)>>
                            /\ stopped' = FALSE
                            /\ calls' = [read_csv_file |-> 1,
                                         match_issue |-> 1,
                                         weight_score |-> Len(kb_df.rows),
                                         render_script |-> Len(m)]

Init ==
    /\ kb_file = << >>
    /\ query = << >>
    /\ agent_name = << >>
    /\ ticket_number = << >>
    /\ token_set_ratio \in Ratios(<< >>)
    /\ message = NoMessage
    /\ matches = << >>
    /\ script = << >>
    /\ alternatives = << >>
    /\ meta = << >>
    /\ calls = NoCalls
    /\ stopped = FALSE
    /\ row = RowRACF
    /\ score = 0
    /\ pc = "idle"

\* sessions that upload tables with the whole schema and leave the sidebar
\* as it starts
Next ==
    \/ Upload(FullTables)
    \/ RemoveFile
    \/ TypeQuery
    \/ BuildScript

Spec == Init /\ [][Next]_vars

\* sessions that use every widget and upload small tables whose header may
\* lack columns
NextPartial ==
    \/ Upload(PartialTables)
    \/ RemoveFile
    \/ TypeQuery
    \/ TypeAgentName
    \/ TypeTicketNumber
    \/ BuildScript

SpecPartial == Init /\ [][NextPartial]_vars

----------------------------------------------------------------------------
(* Direct calls of weight_score: one row, one query, every similarity        *)
(* function of that query                                                    *)

ScoredFields == {fields[i].f : i \in DOMAIN fields}

ScoreRows ==
    {[c \in Columns |-> IF c \in ScoredFields THEN cells[c] ELSE << >>] :
        cells \in [ScoredFields -> {<< >>} \cup Texts]}

InitScore ==
    /\ kb_file = << >>
    /\ query \in {QRACF, TitleRACF, KwRACF}
    /\ agent_name = << >>
    /\ ticket_number = << >>
    /\ token_set_ratio \in Ratios(query)
    /\ message = NoMessage
    /\ matches = << >>
    /\ script = << >>
    /\ alternatives = << >>
    /\ meta = << >>
    /\ calls = NoCalls
    /\ stopped = FALSE
    /\ row \in ScoreRows
    /\ score = 0
    /\ pc = "ready"

CallWeightScore ==
    /\ pc = "ready"
    /\ pc' = "done"
    /\ score' = weight_score(row, token_set_ratio)
    /\ UNCHANGED <<kb_file, query, agent_name, ticket_number, token_set_ratio,
                   message, matches, script, alternatives, meta, calls, stopped, row>>

NextScore == CallWeightScore

SpecScore == InitScore /\ [][NextScore]_vars

----------------------------------------------------------------------------
(* Direct calls of render_script: one row, an agent name, a ticket number    *)

ListFields == {"probing", "steps", "urls", "required_fields"}
ScalarFields == Columns \ (ListFields \cup {"kb_id", "title", "keywords"})

\* the items a list cell is made of
Items == <<
    <<"Ask", " ", "DBN">>,
    <<"reboot">>,
    <<"call", " ", "back">>,
    <<"verify">>,
    <<"log", " ", "ticket">> >>

\* the first n items, joined by ";"
RECURSIVE ListText(_)
ListText(n) ==
    IF n = 0 THEN << >>
    ELSE IF n = 1 THEN Items[1]
    ELSE ListText(n - 1) \o <<";">> \o Items[n]

Padded(text) == <<" ">> \o text \o <<" ", "\n">>

\* the scalar cells that are filled: none, one, or all
ScalarFills == {{}} \cup {{c} : c \in ScalarFields} \cup {ScalarFields}

RenderRows ==
    {[c \in Columns |->
        IF c \in ListFields
        THEN (IF pad THEN Padded(ListText(n[c])) ELSE ListText(n[c]))
        ELSE IF c \in filled THEN <<"<", c, ">">>
        ELSE << >>] :
        n \in [ListFields -> 0..MaxItems], pad \in BOOLEAN, filled \in ScalarFills}

InitRender ==
    /\ kb_file = << >>
    /\ query = << >>
    /\ agent_name \in AgentNames
    /\ ticket_number \in TicketNumbers
    /\ token_set_ratio \in Ratios(<< >>)
    /\ message = NoMessage
    /\ matches = << >>
    /\ script = << >>
    /\ alternatives = << >>
    /\ meta = << >>
    /\ calls = NoCalls
    /\ stopped = FALSE
    /\ row \in RenderRows
    /\ score = 0
    /\ pc = "ready"

CallRenderScript ==
    /\ pc = "ready"
    /\ pc' = "done"
    /\ script' = render_script(row, agent_name, ticket_number)
    /\ UNCHANGED <<kb_file, query, agent_name, ticket_number, token_set_ratio,
                   message, matches, alternatives, meta, calls, stopped, row, score>>

NextRender == CallRenderScript

SpecRender == InitRender /\ [][NextRender]_vars

----------------------------------------------------------------------------
(* Claims about match_issue and the "Build Script" run                       *)

Built == pc = "built"
Blank(q) == \A i \in DOMAIN q : q[i] \in {" ", "\n", "\t"}

\* the request reached match_issue: a file and a query with some token
Matched == Built /\ kb_file # << >> /\ ~Blank(query)

Kb == kb_file[1]
RowScore(k) == weight_score(Kb.rows[k], token_set_ratio)
Qualifying == {k \in DOMAIN Kb.rows : RowScore(k) >= MIN_SCORE}
Returned == {matches[i].idx + 1 : i \in DOMAIN matches}

\* C1: match_issue returns at most ALT_COUNT results, each the score of a row
\* of the table and each at least MIN_SCORE; no row scoring below MIN_SCORE
\* is returned.
C1_AtMostAltCountAllAboveMin ==
    Matched =>
        /\ Len(matches) <= ALT_COUNT
        /\ \A i \in DOMAIN matches :
              /\ matches[i].score >= MIN_SCORE
              /\ matches[i].idx + 1 \in DOMAIN Kb.rows
              /\ matches[i].score = RowScore(matches[i].idx + 1)
        /\ \A k \in DOMAIN Kb.rows : RowScore(k) < MIN_SCORE => k \notin Returned

\* C1 witness: more rows qualify than are returned, and a row below the
\* threshold exists
C1_Witness ==
    /\ Matched
    /\ Len(matches) = ALT_COUNT
    /\ Cardinality(Qualifying) > ALT_COUNT
    /\ \E k \in DOMAIN Kb.rows : RowScore(k) < MIN_SCORE

\* C2: the results are in descending order of score, equal scores in table
\* order; the first is the lowest-indexed row of maximum score; a qualifying
\* row left out scores no more than any returned row, and where it ties with
\* one it comes later in the table.
C2_SortedDescendingStable ==
    Matched =>
        /\ \A i, j \in DOMAIN matches :
              i < j => \/ matches[i].score > matches[j].score
                       \/ /\ matches[i].score = matches[j].score
                          /\ matches[i].idx < matches[j].idx
        /\ Qualifying # {} =>
              /\ matches # << >>
              /\ \A k \in DOMAIN Kb.rows :
                    \/ RowScore(k) < matches[1].score
                    \/ RowScore(k) = matches[1].score /\ matches[1].idx + 1 <= k
        /\ \A k \in Qualifying \ Returned :
              \A i \in DOMAIN matches :
                    \/ matches[i].score > RowScore(k)
                    \/ matches[i].score = RowScore(k) /\ matches[i].idx + 1 < k

\* C2 witness: a full result with two scores and a tie, a qualifying row
\* left out, and the best match not the first row of the table
C2_Witness ==
    /\ Matched
    /\ Len(matches) = ALT_COUNT
    /\ Qualifying \ Returned # {}
    /\ matches[1].idx > 0
    /\ \E i, j \in DOMAIN matches : i < j /\ matches[i].score = matches[j].score
    /\ \E i, j \in DOMAIN matches : matches[i].score > matches[j].score

\* C6: a run whose query is empty or blank stops before the table is read
\* and before anything is scored, with or without a file.
C6_EmptyQueryRejectedBeforeScoring ==
    Built /\ Blank(query) =>
        /\ stopped
        /\ message.kind \in {"error", "warning"}
        /\ calls.read_csv_file = 0
        /\ calls.match_issue = 0
        /\ calls.weight_score = 0
        /\ calls.render_script = 0
        /\ matches = << >>
        /\ script = << >>

\* C6 witness: a blank, non-empty query with a file of several rows uploaded
C6_Witness ==
    /\ Built
    /\ kb_file # << >>
    /\ Len(Kb.rows) > 1
    /\ query # << >>
    /\ Blank(query)
    /\ message.kind = "warning"

\* what a run shows: 1 the upload error, 2 the query warning, 3 the
\* no-strong-match error, 4 a script; 0 anything else
Outcome ==
    CASE message.kind = "error" /\ message.text = "Upload kb.csv first (v3 schema)."
            /\ stopped /\ script = << >> -> 1
      [] message.kind = "warning"
            /\ message.text = "Type a short description of the issue from the caller."
            /\ stopped /\ script = << >> -> 2
      [] message.kind = "error"
            /\ message.text = "No strong match found. Try more specifics (app name, error text, route, KB ID)."
            /\ stopped /\ script = << >> -> 3
      [] message.kind = "success" /\ ~stopped /\ script # << >> -> 4
      [] OTHER -> 0

----------------------------------------------------------------------------
(* Claims about sparse rows and absent columns                               *)

\* the row of the example: only title and keywords are populated
IsRACFRow(r) ==
    /\ get(r, "title", << >>) = TitleRACF
    /\ get(r, "keywords", << >>) = KwRACF
    /\ \A c \in {"kb_id", "tech_app", "category", "action", "catalog",
                 "service_group", "probing", "steps"} : get(r, c, << >>) = << >>

\* C4 as stated: queried with "RACF password reset, PIN known", the row with
\* only title "RACF Password Reset" and keywords "racf;password;pin;reset"
\* scores at least MIN_SCORE, is returned by match_issue and is the top match,
\* whatever the similarity of the two fields.
C4_RACFRowIsTopMatch ==
    Matched /\ query = QRACF /\ Len(Kb.rows) = 1 /\ IsRACFRow(Kb.rows[1]) =>
        /\ RowScore(1) >= MIN_SCORE
        /\ matches # << >>
        /\ matches[1].idx = 0

\* C4 amended: that row scores at most 33, below MIN_SCORE, whatever the
\* similarity of the two fields; match_issue never returns it, and a table
\* of such rows only ends in the no-strong-match error.
C4_RACFRowBelowThreshold ==
    Matched /\ query = QRACF =>
        /\ \A k \in DOMAIN Kb.rows :
              IsRACFRow(Kb.rows[k]) =>
                  /\ RowScore(k) <= 33
                  /\ RowScore(k) < MIN_SCORE
                  /\ k \notin Returned
        /\ (\A k \in DOMAIN Kb.rows : IsRACFRow(Kb.rows[k])) => Outcome = 3

\* C4 witness: both fields at similarity 100, the row scored 33 and left out
\* while the other row of the table is returned
C4_Witness ==
    /\ Matched
    /\ query = QRACF
    /\ token_set_ratio[TitleRACF] = 100
    /\ token_set_ratio[KwRACF] = 100
    /\ Len(Kb.rows) = 2
    /\ IsRACFRow(Kb.rows[1])
    /\ RowScore(1) = 33
    /\ Returned = {2}

\* the table with every column of the schema, the absent ones empty
Filled(kb_df) ==
    [columns |-> Columns,
     rows |-> [i \in DOMAIN kb_df.rows |->
                  [c \in Columns |-> IF c \in DOMAIN kb_df.rows[i]
                                     THEN kb_df.rows[i][c]
                                     ELSE << >>]]]

\* C10: a table whose header lacks columns is scored, matched and rendered
\* as the table that has those columns with every cell empty, and no call
\* fails on an absent column.
C10_MissingColumnAsEmpty ==
    Matched =>
        /\ \A k \in DOMAIN Kb.rows :
              RowScore(k) = weight_score(Filled(Kb).rows[k], token_set_ratio)
        /\ matches = match_issue(Filled(Kb), token_set_ratio)
        /\ matches # << >> =>
              /\ script # KeyError
              /\ script = render_script(iloc(Filled(Kb), matches[1].idx),
                                        agent_name, ticket_number)
              /\ \A i \in DOMAIN alternatives :
                    /\ alternatives[i].text # KeyError
                    /\ alternatives[i].text =
                          render_script(iloc(Filled(Kb), matches[i + 1].idx),
                                        agent_name, ticket_number)

\* C10 witness: a table without the catalog, steps and os columns, two rows
\* matched and rendered
C10_Witness ==
    /\ Matched
    /\ Kb.columns = Columns \ {"catalog", "steps", "os"}
    /\ Len(matches) = 2
    /\ Len(alternatives) = 1
    /\ script # << >>

----------------------------------------------------------------------------
(* Claims about weight_score                                                 *)

Scored == pc = "done" /\ query # << >>

\* similarity of the query and a field of the row, 0 for an empty field
Sim(f) == IF row[f] = << >> THEN 0 ELSE token_set_ratio[row[f]]

\* the weighted sum of the ten fields
WeightedTotal ==
    3 * Sim("title") + 3 * Sim("keywords")
    + 2 * Sim("kb_id") + 2 * Sim("tech_app") + 2 * Sim("category") + 2 * Sim("action")
    + Sim("catalog") + Sim("service_group") + Sim("probing") + Sim("steps")

\* n / d rounded to the nearest integer, a tie to the even one (Python's round)
Round(n, d) ==
    LET q == n \div d
        r == n % d
    IN  IF 2 * r > d THEN q + 1
        ELSE IF 2 * r < d THEN q
        ELSE IF q % 2 = 0 THEN q ELSE q + 1

\* C3 as stated: weight_score is round(100 * total / max_total) with
\* max_total = 1800, an integer in 0..100.
C3_ScoreIsRounded ==
    Scored =>
        /\ score = Round(100 * WeightedTotal, 1800)
        /\ score \in 0..100

\* C3 amended: weight_score is int((total / max_total) * 100) with max_total
\* = 1800 whatever fields are empty: 100 * total / 1800 truncated, not
\* rounded, and one less than that at total = 522, 1026 and 1044, where the
\* double product falls just below 29, 57 and 58; an integer in 0..100.
C3_ScoreIsTruncated ==
    Scored =>
        /\ score = (100 * WeightedTotal) \div 1800
                   - (IF WeightedTotal \in {522, 1026, 1044} THEN 1 ELSE 0)
        /\ score \in 0..100

\* C3 witness: title at similarity 74, keywords at 100, the other fields empty:
\* total = 522, 100 * 522 / 1800 = 29 exactly, and the score is 28
C3_Witness ==
    /\ Scored
    /\ WeightedTotal = 522
    /\ row["steps"] = << >>
    /\ score = 28

OwnText == query = row["title"] \/ query = row["keywords"]
AllFieldsAt100 ==
    \A f \in {"title", "keywords", "kb_id", "tech_app", "category", "action",
              "catalog", "service_group", "probing", "steps"} :
        row[f] # << >> /\ token_set_ratio[row[f]] = 100

\* C5 as stated: a row scored against its own title text, or its own
\* keywords text, gets the maximum of the weighting scheme, 100.
C5_OwnTextScoresMaximum ==
    Scored /\ OwnText => score = 100

\* C5 amended: a row scored against its own title or keywords text gets at
\* least 16, the share of that one field (300 of 1800); it gets the maximum
\* of the scheme, 100, exactly when all ten fields are populated and each has
\* similarity 100 with the query.
C5_OwnTextScoresItsShare ==
    Scored /\ OwnText =>
        /\ score >= 16
        /\ score <= 100
        /\ score = 100 <=> AllFieldsAt100

\* C5 witness: all ten fields populated, the query is the title, and the row
\* does not even reach the threshold
C5_Witness ==
    /\ Scored
    /\ query = row["title"]
    /\ \A f \in ScoredFields : row[f] # << >>
    /\ score < MIN_SCORE

----------------------------------------------------------------------------
(* Claims about render_script                                                *)

Rendered == pc = "done" /\ script # << >>

AllEmpty == \A c \in DOMAIN row : row[c] = << >>

\* the placeholder of each slot of the template
Placeholder(k) ==
    CASE k = "{agent_name}" ->
            IF agent_name = << >> THEN <<"[Your Name]">> ELSE agent_name
      [] k = "{ticket_number}" ->
            IF ticket_number = << >> THEN <<"[Ticket #]">> ELSE ticket_number
      [] k = "{os}" -> <<"Any">>
      [] OTHER -> <<"-">>

RECURSIVE WithPlaceholders(_)
WithPlaceholders(t) ==
    IF t = << >> THEN << >>
    ELSE (IF Head(t) \in ReplacementFields THEN Placeholder(Head(t)) ELSE <<Head(t)>>)
         \o WithPlaceholders(Tail(t))

\* the 14 section headers, in the order of the template
Headers == <<
    "[GREETING]",
    "[VERIFICATION -- DOE 5-Point]",
    "[CLASSIFICATION -- 4 Levels]",
    "[TECHNOLOGY]",
    "[WHAT TO ASK (Probing)]",
    "[WHAT TO SAY / DO (Resolution Steps)]",
    "[URLS / FORMS]",
    "[ESCALATION / ROUTING]",
    "[REQUIRED DATA TO COLLECT]",
    "[CAUSE / RESOLUTION CODES]",
    "[HOURS / SCHEDULE]",
    "[CONTACTS]",
    "[SOURCES]",
    "[CLOSING]" >>

IsHeader(a) == \E i \in DOMAIN Headers : Headers[i] = a

\* C8: a row of empty cells renders as the template with every slot at its
\* placeholder ("-", "Any" for OS, "[Your Name]" and "[Ticket #]" for an
\* empty agent name and ticket), the 14 headers in template order, and no
\* replacement field left.
C8_EmptyRowRendersPlaceholders ==
    Rendered /\ AllEmpty =>
        /\ script = WithPlaceholders(SCRIPT_TEMPLATE)
        /\ SelectSeq(script, IsHeader) = Headers
        /\ Len(Headers) = 14
        /\ \A i \in DOMAIN script : script[i] \notin ReplacementFields

\* C8 witness: the empty row with no agent name and no ticket number
C8_Witness ==
    /\ Rendered
    /\ AllEmpty
    /\ agent_name = << >>
    /\ ticket_number = << >>

\* s cut at every sep
RECURSIVE Segments(_, _)
Segments(s, sep) ==
    IF \A i \in DOMAIN s : s[i] # sep THEN <<s>>
    ELSE LET i == CHOOSE i \in DOMAIN s : s[i] = sep /\ \A j \in 1..(i - 1) : s[j] # sep
         IN  <<SubSeq(s, 1, i - 1)>> \o Segments(SubSeq(s, i + 1, Len(s)), sep)

Position(s, a) == CHOOSE i \in DOMAIN s : s[i] = a

\* the header over the block of a list field, and the header after it
HeaderOf(f) ==
    CASE f = "probing" -> "[WHAT TO ASK (Probing)]"
      [] f = "steps" -> "[WHAT TO SAY / DO (Resolution Steps)]"
      [] f = "urls" -> "[URLS / FORMS]"
      [] f = "required_fields" -> "[REQUIRED DATA TO COLLECT]"
HeaderAfter(f) ==
    CASE f = "probing" -> "[WHAT TO SAY / DO (Resolution Steps)]"
      [] f = "steps" -> "[URLS / FORMS]"
      [] f = "urls" -> "[ESCALATION / ROUTING]"
      [] f = "required_fields" -> "[CAUSE / RESOLUTION CODES]"

\* the block of a list field in the script: what stands between the line of
\* its header and the blank line before the next header
Block(f) ==
    SubSeq(script, Position(script, HeaderOf(f)) + 2,
                   Position(script, HeaderAfter(f)) - 3)

Trimmed(f) == Segments(Block(f), "\n")
ItemsOf(f) == Segments(rstrip(lstrip(row[f])), ";")
Numbers == <<"1) ", "2) ", "3) ", "4) ", "5) ", "6) ">>

\* C9: a list field of n >= 1 items renders as n lines, one item a line in
\* the order of the cell and no ";" left; the lines of probing, urls and
\* required_fields start with "- ", the k-th line of steps with "k) ".
C9_ListBlocksBulletedOrNumbered ==
    Rendered =>
        \A f \in ListFields :
            rstrip(lstrip(row[f])) # << >> =>
                /\ Len(Trimmed(f)) = Len(ItemsOf(f))
                /\ \A i \in DOMAIN Block(f) : Block(f)[i] # ";"
                /\ \A k \in DOMAIN ItemsOf(f) :
                      Trimmed(f)[k] =
                          <<IF f = "steps" THEN Numbers[k] ELSE "- ">> \o ItemsOf(f)[k]

\* what render_script does with steps: "1) ", "2) ", and the bullet U+2022
\* from the third item on
StepsAsRendered ==
    Rendered =>
        \A f \in ListFields :
            rstrip(lstrip(row[f])) # << >> =>
                /\ Len(Trimmed(f)) = Len(ItemsOf(f))
                /\ \A i \in DOMAIN Block(f) : Block(f)[i] # ";"
                /\ \A k \in DOMAIN ItemsOf(f) :
                      Trimmed(f)[k] =
                          <<IF f # "steps" THEN "- "
                            ELSE IF k <= 2 THEN Numbers[k]
                            ELSE "(U+2022) ">> \o ItemsOf(f)[k]

====
